---- MODULE Spec2Model ----
(***************************************************************************)
(* The session registry of examples/discord_bot.rs: TextBot::message (the  *)
(* dispatch entry point) and the session task it spawns, over the tokio    *)
(* RwLock that guards the map and the bounded mpsc channel of each         *)
(* session, with GameData::process_input of src/lib.rs as the engine.      *)
(* Beside it, the terminal game of examples/term_game.rs (load, decode,     *)
(* answer, encode, store) over the bincode codec of src/lib.rs, and the    *)
(* room table ROOM_DB of src/lib.rs under the derived ordering of Room.    *)
(***************************************************************************)
EXTENDS Integers, Sequences, FiniteSets, TLC

\* ---------------------------------------------------------------- bounds
MaxMsgs == 2            \* message() calls of the first producer
BurstMsgs == 6          \* message() calls of the first producer in a burst
MaxFails == 2           \* gateway failures (broadcast_typing / say) per run
MaxSaved == 2           \* largest of the small counts found in a save file
MaxLines == 3           \* lines read from stdin by the terminal game, over all runs

\* ------------------------------------------------------------- constants
CAPACITY == 5           \* mpsc_channel(5)

Producers == {1, 2, 3}  \* event sources, each issuing its calls one after another
Channels == {1, 2}      \* private channels
\* every call spawns at most one task, and no workload below makes more calls
ActorIds == 1..(MaxMsgs + BurstMsgs + 2)
None == <<"none", 0>>
DTask(p) == <<"d", p>>
ATask(a) == <<"a", a>>
NoMsg == <<0, 0>>

VARIABLES
  sessions,   \* HashMap<ChannelId, Sender>: channel -> id of the task fed, 0 = no entry
  readers,    \* RwLock: tasks holding a read guard
  writer,     \* RwLock: task holding the write guard, or None
  waitq,      \* RwLock: FIFO queue of <<task, "r" | "w">> waiting for the lock
  dpc,        \* message(): position of each producer's current call
  dchan,      \* message(): msg.channel_id of the current call
  dsender,    \* message(): the Sender the call is about to use
  calls,      \* number of message() calls each producer has started
  limit,      \* workload: number of message() calls each producer makes
  targets,    \* workload: the channels each producer's messages come from
  faults,     \* workload: number of gateway calls that may fail
  apc,        \* session task: position
  achan,      \* session task: channel_id
  game,       \* session task: game.message_count
  mailbox,    \* mpsc channel: buffered messages
  closed,     \* mpsc channel: recver.close() was called
  cur,        \* session task: `message` of the current loop iteration
  exitWhy,    \* session task: why the first loop ended
  spawned,    \* number of session tasks spawned so far
  disk,       \* saved game data per channel
  processed,  \* history: per channel, the process_input calls in order
  outputs,    \* history: per channel, the responses say() delivered
  failed,     \* history: gateway calls that returned Err
  accepted,   \* history: <<message, channel, task>> of every successful send
  sendErrs,   \* history: number of sends that returned Err
  removals,   \* history: number of writer.remove calls per task
  inserts,    \* history: number of v.insert calls per task's sender
  early,      \* history: messages whose call began before the channel had a task
  creator,    \* history: per task, the message of the call that spawned it
  tpc,        \* term_game main: position
  tfile,      \* term_game: contents of save_data/local_save.data, or NoFile
  tbytes,     \* term_game main: `bytes`
  tprofile,   \* term_game main: `profile_bytes`
  tgame,      \* term_game main: game.message_count
  tout,       \* term_game: the responses written to stdout by this run
  tstart,     \* history: how this run's start went (file missing, undecodable, decoded)
  tlines,     \* history: number of lines read from stdin over all runs
  rprobe,     \* ROOM_DB: the pair of indices last compared
  rcmp        \* ROOM_DB: Ordering of that comparison

vars == <<sessions, readers, writer, waitq, dpc, dchan, dsender, calls, limit,
          targets, faults, apc,
          achan, game, mailbox, closed, cur, exitWhy, spawned, disk,
          processed, outputs, failed, accepted, sendErrs, removals, inserts,
          early, creator, tpc, tfile, tbytes, tprofile, tgame, tout, tstart, tlines,
          rprobe, rcmp>>

lockVars == <<readers, writer, waitq>>
termVars == <<tpc, tfile, tbytes, tprofile, tgame, tout, tstart, tlines>>
roomVars == <<rprobe, rcmp>>
botVars == <<sessions, readers, writer, waitq, dpc, dchan, dsender, calls, limit,
             targets, faults, apc, achan, game, mailbox, closed, cur, exitWhy,
             spawned, disk, processed, outputs, failed, accepted, sendErrs,
             removals, inserts, early, creator>>
\* what no step of the bot touches: its workload, and the two other programs
workVars == <<limit, targets, faults, termVars, roomVars>>
dispVars == <<dpc, dchan, dsender, calls, workVars>>
actorVars == <<apc, achan, game, mailbox, closed, cur, exitWhy, spawned>>
histVars == <<processed, outputs, failed, accepted, sendErrs, removals, inserts,
              early, creator>>

\* ------------------------------------------------------------ the engine
DefaultCount == 0       \* GameData::default()

RECURSIVE ToDecimal(_)
\* format!("{}", n): the decimal digits of n, most significant first
ToDecimal(n) == IF n < 10 THEN <<n>> ELSE ToDecimal(n \div 10) \o <<n % 10>>

\* an engine that counts by what the message holds (its first element)
ProcessInputByContent(count, input) ==
  [count |-> count + input[1], response |-> ToDecimal(count + input[1])]

\* GameData::process_input: the new count and the response
ProcessInput(count, input) ==
  [count |-> count + 1, response |-> ToDecimal(count + 1)]

\* ------------------------------------------------------------- the codec
U64Bytes == 8           \* message_count: u64, bincode writes it fixed-width

RECURSIVE LeBytes(_, _)
\* the k low bytes of n, least significant first
LeBytes(n, k) == IF k = 0 THEN <<>> ELSE <<n % 256>> \o LeBytes(n \div 256, k - 1)

RECURSIVE LeValue(_)
\* the number a little-endian byte string stands for
LeValue(b) == IF b = <<>> THEN 0 ELSE Head(b) + 256 * LeValue(Tail(b))

\* an encoder writing the count as a u32, four bytes
SerializeNarrow(count) == [ok |-> TRUE, bytes |-> LeBytes(count, 4)]

\* TryFrom<&GameData> for Vec<u8>: bincode::serialize, the one u64 field as
\* eight little-endian bytes; nothing in a GameData can fail to encode
Serialize(count) == [ok |-> TRUE, bytes |-> LeBytes(count, U64Bytes)]

\* TryFrom<&[u8]> for GameData: bincode::deserialize reads eight bytes, fails
\* when the input ends before that, and ignores what follows them
Deserialize(bytes) ==
  IF Len(bytes) < U64Bytes THEN [ok |-> FALSE, count |-> DefaultCount]
  ELSE [ok |-> TRUE, count |-> LeValue(SubSeq(bytes, 1, U64Bytes))]

\* ------------------------------------------------------------ the RwLock
RECURSIVE Grant(_, _, _)
\* hand the lock to the waiters at the head of the queue, in order
Grant(rd, wr, q) ==
  IF q = <<>> THEN [readers |-> rd, writer |-> wr, waitq |-> q]
  ELSE LET h == Head(q) IN
    IF h[2] = "r" /\ wr = None THEN Grant(rd \cup {h[1]}, wr, Tail(q))
    ELSE IF h[2] = "w" /\ wr = None /\ rd = {}
      THEN [readers |-> rd, writer |-> h[1], waitq |-> Tail(q)]
      ELSE [readers |-> rd, writer |-> wr, waitq |-> q]

SetLock(l) ==
  /\ readers' = l.readers
  /\ writer' = l.writer
  /\ waitq' = l.waitq

\* sessions.read() / sessions.write(): the request joins the queue
Request(t, mode) == Grant(readers, writer, Append(waitq, <<t, mode>>))
\* dropping a read guard
DropRead(t) == Grant(readers \ {t}, writer, waitq)
\* dropping the write guard
DropWrite(t) == Grant(readers, IF writer = t THEN None ELSE writer, waitq)

HoldsRead(t) == t \in readers
HoldsWrite(t) == writer = t

\* ------------------------------------------------------ the mpsc channel
\* a channel without a capacity
SendOutcomeUnbounded(a) == IF closed[a] THEN "err" ELSE "ok"

\* Sender::send: "err" once the receiver is closed, "full" suspends the caller
SendOutcome(a) ==
  IF closed[a] THEN "err"
  ELSE IF Len(mailbox[a]) < CAPACITY THEN "ok" ELSE "full"

\* the newest message put in front
EnqueueFront(q, m) == <<m>> \o q

\* the buffer after a successful send
Enqueue(q, m) == Append(q, m)
\* Receiver::recv on a non-empty buffer: the oldest message, and what is left
NextMessage(q) == Head(q)
Rest(q) == Tail(q)

\* ------------------------------------------------- the room table (lib.rs)
\* strings are given by their bytes, as str's ordering compares them
Dot == 46               \* b'.'

\* u32::from_be_bytes
FromBeBytes(b) == ((b[1] * 256 + b[2]) * 256 + b[3]) * 256 + b[4]
\* u32::from_le_bytes
FromLeBytes(b) == ((b[4] * 256 + b[3]) * 256 + b[2]) * 256 + b[1]

\* the four bytes room_id makes of its argument
Padded(s) == [i \in 1..4 |-> IF i <= Len(s) THEN s[i] ELSE Dot]

\* the id read least significant byte first
RoomIdLittleEndian(s) == IF Len(s) > 4 THEN 0 ELSE FromLeBytes(Padded(s))

\* room_id: up to four bytes padded with b'.', read as a big-endian u32. A
\* longer argument panics, and so does the value 0 (NonZeroU32::new gives
\* None): 0, which no RoomID holds, stands for both.
RoomId(s) == IF Len(s) > 4 THEN 0 ELSE FromBeBytes(Padded(s))

\* Ord for u32
CmpInt(x, y) == IF x < y THEN "Less" ELSE IF x = y THEN "Equal" ELSE "Greater"

RECURSIVE CmpStr(_, _)
\* Ord for str: bytewise lexicographic, a proper prefix is less
CmpStr(x, y) ==
  IF x = <<>> THEN (IF y = <<>> THEN "Equal" ELSE "Less")
  ELSE IF y = <<>> THEN "Greater"
  ELSE IF Head(x) # Head(y) THEN CmpInt(Head(x), Head(y))
  ELSE CmpStr(Tail(x), Tail(y))

\* #[derive(PartialOrd, Ord)] on Room: the fields in declaration order
CmpRoom(x, y) ==
  IF CmpInt(x.id, y.id) # "Equal" THEN CmpInt(x.id, y.id)
  ELSE IF CmpStr(x.name, y.name) # "Equal" THEN CmpStr(x.name, y.name)
  ELSE CmpStr(x.description, y.description)

\* Room::DEFAULT: id "DEAD", name and description "Default"
DEFAULT ==
  [id |-> RoomId(<<68, 69, 65, 68>>), name |-> <<68, 101, 102, 97, 117, 108, 116>>,
   description |-> <<68, 101, 102, 97, 117, 108, 116>>]

ROOM_DB == <<
  \* c_H8 "Shrine of Resurrection"
  [id |-> RoomId(<<99, 95, 72, 56>>), name |-> <<83, 104, 114, 105, 110, 101, 32, 111, 102, 32, 82, 101, 115, 117, 114, 114, 101, 99, 116, 105, 111, 110>>,
   description |-> DEFAULT.description],
  \* d101 "entry"
  [id |-> RoomId(<<100, 49, 48, 49>>), name |-> <<101, 110, 116, 114, 121>>,
   description |-> DEFAULT.description],
  \* d102 "deadend"
  [id |-> RoomId(<<100, 49, 48, 50>>), name |-> <<100, 101, 97, 100, 101, 110, 100>>,
   description |-> DEFAULT.description],
  \* d103 "deadend"
  [id |-> RoomId(<<100, 49, 48, 51>>), name |-> <<100, 101, 97, 100, 101, 110, 100>>,
   description |-> DEFAULT.description],
  \* d104 "hall-north"
  [id |-> RoomId(<<100, 49, 48, 52>>), name |-> <<104, 97, 108, 108, 45, 110, 111, 114, 116, 104>>,
   description |-> DEFAULT.description],
  \* d105 "room"
  [id |-> RoomId(<<100, 49, 48, 53>>), name |-> <<114, 111, 111, 109>>,
   description |-> DEFAULT.description],
  \* d106 "room"
  [id |-> RoomId(<<100, 49, 48, 54>>), name |-> <<114, 111, 111, 109>>,
   description |-> DEFAULT.description],
  \* d107 "room"
  [id |-> RoomId(<<100, 49, 48, 55>>), name |-> <<114, 111, 111, 109>>,
   description |-> DEFAULT.description],
  \* d108 "room"
  [id |-> RoomId(<<100, 49, 48, 56>>), name |-> <<114, 111, 111, 109>>,
   description |-> DEFAULT.description],
  \* d109 "room"
  [id |-> RoomId(<<100, 49, 48, 57>>), name |-> <<114, 111, 111, 109>>,
   description |-> DEFAULT.description],
  \* d110 "room"
  [id |-> RoomId(<<100, 49, 49, 48>>), name |-> <<114, 111, 111, 109>>,
   description |-> DEFAULT.description],
  \* d111 "hall"
  [id |-> RoomId(<<100, 49, 49, 49>>), name |-> <<104, 97, 108, 108>>,
   description |-> DEFAULT.description],
  \* d112 "hall-turn-west"
  [id |-> RoomId(<<100, 49, 49, 50>>), name |-> <<104, 97, 108, 108, 45, 116, 117, 114, 110, 45, 119, 101, 115, 116>>,
   description |-> DEFAULT.description],
  \* d113 "stairs-down"
  [id |-> RoomId(<<100, 49, 49, 51>>), name |-> <<115, 116, 97, 105, 114, 115, 45, 100, 111, 119, 110>>,
   description |-> DEFAULT.description],
  \* d114 "mini-treasure?"
  [id |-> RoomId(<<100, 49, 49, 52>>), name |-> <<109, 105, 110, 105, 45, 116, 114, 101, 97, 115, 117, 114, 101, 63>>,
   description |-> DEFAULT.description],
  \* d115 "sage?"
  [id |-> RoomId(<<100, 49, 49, 53>>), name |-> <<115, 97, 103, 101, 63>>,
   description |-> DEFAULT.description],
  \* d116 "hall-turn-north"
  [id |-> RoomId(<<100, 49, 49, 54>>), name |-> <<104, 97, 108, 108, 45, 116, 117, 114, 110, 45, 110, 111, 114, 116, 104>>,
   description |-> DEFAULT.description],
  \* d117 "boss-fight"
  [id |-> RoomId(<<100, 49, 49, 55>>), name |-> <<98, 111, 115, 115, 45, 102, 105, 103, 104, 116>>,
   description |-> DEFAULT.description],
  \* d118 "the-cape"
  [id |-> RoomId(<<100, 49, 49, 56>>), name |-> <<116, 104, 101, 45, 99, 97, 112, 101>>,
   description |-> DEFAULT.description],
  \* w_H4 "Zakros Isle"
  [id |-> RoomId(<<119, 95, 72, 52>>), name |-> <<90, 97, 107, 114, 111, 115, 32, 73, 115, 108, 101>>,
   description |-> DEFAULT.description],
  \* w_H8 "Firros"
  [id |-> RoomId(<<119, 95, 72, 56>>), name |-> <<70, 105, 114, 114, 111, 115>>,
   description |-> DEFAULT.description],
  \* w_I4 "Baikal"
  [id |-> RoomId(<<119, 95, 73, 52>>), name |-> <<66, 97, 105, 107, 97, 108>>,
   description |-> DEFAULT.description],
  \* w_I5 "Baikal"
  [id |-> RoomId(<<119, 95, 73, 53>>), name |-> <<66, 97, 105, 107, 97, 108>>,
   description |-> DEFAULT.description],
  \* w_I6 "Torshavn"
  [id |-> RoomId(<<119, 95, 73, 54>>), name |-> <<84, 111, 114, 115, 104, 97, 118, 110>>,
   description |-> DEFAULT.description],
  \* w_I7 "Torshavn"
  [id |-> RoomId(<<119, 95, 73, 55>>), name |-> <<84, 111, 114, 115, 104, 97, 118, 110>>,
   description |-> DEFAULT.description],
  \* w_I8 "Torshavn"
  [id |-> RoomId(<<119, 95, 73, 56>>), name |-> <<84, 111, 114, 115, 104, 97, 118, 110>>,
   description |-> DEFAULT.description]
>>

\* no comparison made yet
RoomsUnprobed == rprobe = <<1, 1>> /\ rcmp = "Equal"

\* ---------------------------------------------- the terminal game: files
\* save_data/local_save.data: absent, or a byte string
NoFile == [exists |-> FALSE, bytes |-> <<>>]
FileOf(b) == [exists |-> TRUE, bytes |-> b]

\* the files a run may find: none, an empty one, ones too short to hold a
\* u64, saved counts (one and two significant bytes), and a saved count
\* followed by a stray byte
SavedFiles ==
  {NoFile, FileOf(<<>>), FileOf(<<1, 0, 0>>), FileOf(LeBytes(7, U64Bytes - 1))}
  \cup {FileOf(LeBytes(n, U64Bytes)) : n \in 0..MaxSaved}
  \cup {FileOf(LeBytes(255, U64Bytes)), FileOf(LeBytes(2, U64Bytes) \o <<9>>)}

\* the lines typed at the prompt
Lines == {"look", "north", ""}

\* main about to start, with `file` on the disk
TermAt(file) ==
  /\ tpc = "load"
  /\ tfile = file
  /\ tbytes = <<>>
  /\ tprofile = <<>>
  /\ tgame = DefaultCount
  /\ tout = <<>>
  /\ tstart = "unread"
  /\ tlines = 0

\* the bot receives no event
Quiet ==
  /\ limit = [p \in Producers |-> 0]
  /\ targets = [p \in Producers |-> {1}]
  /\ faults = 0

\* ------------------------------------------------------------------ Init
\* a freshly started bot: TextBot::default(), no session, no call in flight
Fresh ==
  /\ sessions = [c \in Channels |-> 0]
  /\ readers = {}
  /\ writer = None
  /\ waitq = <<>>
  /\ dpc = [p \in Producers |-> "idle"]
  /\ dchan = [p \in Producers |-> 0]
  /\ dsender = [p \in Producers |-> 0]
  /\ calls = [p \in Producers |-> 0]
  /\ apc = [a \in ActorIds |-> "none"]
  /\ achan = [a \in ActorIds |-> 0]
  /\ game = [a \in ActorIds |-> DefaultCount]
  /\ mailbox = [a \in ActorIds |-> <<>>]
  /\ closed = [a \in ActorIds |-> FALSE]
  /\ cur = [a \in ActorIds |-> NoMsg]
  /\ exitWhy = [a \in ActorIds |-> "none"]
  /\ spawned = 0
  /\ disk = [c \in Channels |-> DefaultCount]
  /\ processed = [c \in Channels |-> <<>>]
  /\ outputs = [c \in Channels |-> <<>>]
  /\ failed = {}
  /\ accepted = {}
  /\ sendErrs = 0
  /\ removals = [a \in ActorIds |-> 0]
  /\ inserts = [a \in ActorIds |-> 0]
  /\ early = {}
  /\ creator = [a \in ActorIds |-> NoMsg]

\* producer 1 makes MaxMsgs calls on channel 1, producer 2 one call on channel 1,
\* producer 3 one call on either channel; the gateway does not fail
Init ==
  /\ Fresh
  /\ limit = [p \in Producers |-> IF p = 1 THEN MaxMsgs ELSE 1]
  /\ targets = [p \in Producers |-> IF p = 3 THEN Channels ELSE {1}]
  /\ faults = 0
  /\ TermAt(NoFile)
  /\ RoomsUnprobed

\* a burst on channel 1: BurstMsgs calls of producer 1, one call of producer 2
InitBurst ==
  /\ Fresh
  /\ limit = [p \in Producers |-> IF p = 1 THEN BurstMsgs ELSE IF p = 2 THEN 1 ELSE 0]
  /\ targets = [p \in Producers |-> {1}]
  /\ faults = 0
  /\ TermAt(NoFile)
  /\ RoomsUnprobed

\* producer 1 makes MaxMsgs calls and producer 2 one call on channel 1, and up to
\* MaxFails calls of the gateway fail
InitFaults ==
  /\ Fresh
  /\ limit = [p \in Producers |-> IF p = 1 THEN MaxMsgs ELSE IF p = 2 THEN 1 ELSE 0]
  /\ targets = [p \in Producers |-> {1}]
  /\ faults = MaxFails
  /\ TermAt(NoFile)
  /\ RoomsUnprobed

\* ------------------------------------------------------------- message()
CurMsg(p) == <<p, calls[p]>>

\* the send of the current call into dsender[p]; `after` is the position after it
DoSend(p, after) ==
  LET a == dsender[p] IN
  /\ SendOutcome(a) # "full"
  /\ IF SendOutcome(a) = "ok"
       THEN /\ mailbox' = [mailbox EXCEPT ![a] = Enqueue(@, CurMsg(p))]
            /\ accepted' = accepted \cup {<<CurMsg(p), dchan[p], a>>}
            /\ sendErrs' = sendErrs
       ELSE /\ sendErrs' = sendErrs + 1
            /\ UNCHANGED <<mailbox, accepted>>
  /\ dpc' = [dpc EXCEPT ![p] = after]

\* line 79: a message arrives and the call asks for the read guard
MessageRead(p) ==
  /\ dpc[p] = "idle"
  /\ calls[p] < limit[p]
  /\ \E c \in targets[p] :
       /\ dchan' = [dchan EXCEPT ![p] = c]
       /\ calls' = [calls EXCEPT ![p] = @ + 1]
       /\ dpc' = [dpc EXCEPT ![p] = "check"]
       /\ SetLock(Request(DTask(p), "r"))
       /\ early' = IF \E a \in ActorIds : apc[a] # "none" /\ achan[a] = c
                     THEN early
                     ELSE early \cup {<<p, calls[p] + 1>>}
  /\ UNCHANGED <<sessions, dsender, workVars, actorVars, disk, processed,
                 outputs, failed, accepted, sendErrs, removals, inserts, creator>>

\* a call that finds the sender and still goes for the write guard
CheckFoundUpgrade(p) ==
  /\ dpc[p] = "check"
  /\ HoldsRead(DTask(p))
  /\ sessions[dchan[p]] # 0
  /\ SetLock(DropRead(DTask(p)))
  /\ dpc' = [dpc EXCEPT ![p] = "write"]
  /\ UNCHANGED <<sessions, dchan, dsender, calls, workVars, actorVars, disk, histVars>>

\* line 80: r.get finds the sender
CheckFound(p) ==
  /\ dpc[p] = "check"
  /\ HoldsRead(DTask(p))
  /\ sessions[dchan[p]] # 0
  /\ dsender' = [dsender EXCEPT ![p] = sessions[dchan[p]]]
  /\ dpc' = [dpc EXCEPT ![p] = "fsend"]
  /\ UNCHANGED <<sessions, lockVars, dchan, calls, workVars, actorVars, disk, histVars>>

\* lines 86-89: r.get finds nothing, the read guard is dropped
CheckMissing(p) ==
  /\ dpc[p] = "check"
  /\ HoldsRead(DTask(p))
  /\ sessions[dchan[p]] = 0
  /\ SetLock(DropRead(DTask(p)))
  /\ dpc' = [dpc EXCEPT ![p] = "write"]
  /\ UNCHANGED <<sessions, dchan, dsender, calls, workVars, actorVars, disk, histVars>>

\* lines 83-85: send under the read guard, which is dropped when the call returns
FastSend(p) ==
  /\ dpc[p] = "fsend"
  /\ DoSend(p, "idle")
  /\ SetLock(DropRead(DTask(p)))
  /\ dsender' = [dsender EXCEPT ![p] = 0]
  /\ UNCHANGED <<sessions, dchan, calls, workVars, apc, achan, game, closed, cur,
                 exitWhy, spawned, disk, processed, outputs, failed, removals,
                 inserts, early, creator>>

\* a lock upgrade that trusts the earlier read and does not look again
VacantAtUnchecked(c) == TRUE

\* line 92: w.entry(channel_id) is Entry::Vacant
VacantAt(c) == sessions[c] = 0

\* line 91: the call asks for the write guard
MessageWrite(p) ==
  /\ dpc[p] = "write"
  /\ SetLock(Request(DTask(p), "w"))
  /\ dpc' = [dpc EXCEPT ![p] = "entry"]
  /\ UNCHANGED <<sessions, dchan, dsender, calls, workVars, actorVars, disk, histVars>>

\* lines 92-93: Entry::Occupied
EntryOccupied(p) ==
  /\ dpc[p] = "entry"
  /\ HoldsWrite(DTask(p))
  /\ ~VacantAt(dchan[p])
  /\ dsender' = [dsender EXCEPT ![p] = sessions[dchan[p]]]
  /\ dpc' = [dpc EXCEPT ![p] = "osend"]
  /\ UNCHANGED <<sessions, lockVars, dchan, calls, workVars, actorVars, disk, histVars>>

\* lines 96-100: send under the write guard, which is dropped when the call returns
OccupiedSend(p) ==
  /\ dpc[p] = "osend"
  /\ DoSend(p, "idle")
  /\ SetLock(DropWrite(DTask(p)))
  /\ dsender' = [dsender EXCEPT ![p] = 0]
  /\ UNCHANGED <<sessions, dchan, calls, workVars, apc, achan, game, closed, cur,
                 exitWhy, spawned, disk, processed, outputs, failed, removals,
                 inserts, early, creator>>

\* the game a new session starts with (line 107: the disk is not read)
InitialGame(c) == DefaultCount

\* lines 102-108: Entry::Vacant, the channel is made and the task spawned
EntryVacant(p) ==
  /\ dpc[p] = "entry"
  /\ HoldsWrite(DTask(p))
  /\ VacantAt(dchan[p])
  /\ LET a == spawned + 1 IN
       /\ spawned' = a
       /\ apc' = [apc EXCEPT ![a] = "recv"]
       /\ achan' = [achan EXCEPT ![a] = dchan[p]]
       /\ game' = [game EXCEPT ![a] = InitialGame(dchan[p])]
       /\ mailbox' = [mailbox EXCEPT ![a] = <<>>]
       /\ closed' = [closed EXCEPT ![a] = FALSE]
       /\ dsender' = [dsender EXCEPT ![p] = a]
       /\ creator' = [creator EXCEPT ![a] = CurMsg(p)]
  /\ dpc' = [dpc EXCEPT ![p] = "vsend"]
  /\ UNCHANGED <<sessions, lockVars, dchan, calls, workVars, cur, exitWhy, disk,
                 processed, outputs, failed, accepted, sendErrs, removals, inserts,
                 early>>

\* a creator that gives the write guard back as soon as it has sent
VacantSendUnlocked(p) ==
  /\ dpc[p] = "vsend"
  /\ DoSend(p, "insert")
  /\ SetLock(DropWrite(DTask(p)))
  /\ UNCHANGED <<sessions, dchan, dsender, calls, workVars, apc, achan, game,
                 closed, cur, exitWhy, spawned, disk, processed, outputs,
                 failed, removals, inserts, early, creator>>

\* lines 147-151: the creator sends its own message
VacantSend(p) ==
  /\ dpc[p] = "vsend"
  /\ DoSend(p, "insert")
  /\ UNCHANGED <<sessions, lockVars, dchan, dsender, calls, workVars, apc, achan, game,
                 closed, cur, exitWhy, spawned, disk, processed, outputs,
                 failed, removals, inserts, early, creator>>

\* the sender put under every channel
InsertEntryAll(m, c, a) == [x \in DOMAIN m |-> a]

\* the sender dropped instead of being put into the map
InsertEntryForgotten(m, c, a) == m

\* the map after v.insert(sender)
InsertEntry(m, c, a) == [m EXCEPT ![c] = a]

\* line 152: v.insert(sender), then the write guard is dropped as the call returns
VacantInsert(p) ==
  /\ dpc[p] = "insert"
  /\ sessions' = InsertEntry(sessions, dchan[p], dsender[p])
  /\ SetLock(DropWrite(DTask(p)))
  /\ dsender' = [dsender EXCEPT ![p] = 0]
  /\ dpc' = [dpc EXCEPT ![p] = "idle"]
  /\ inserts' = [inserts EXCEPT ![dsender[p]] = @ + 1]
  /\ UNCHANGED <<dchan, calls, workVars, actorVars, disk, processed, outputs,
                 failed, accepted, sendErrs, removals, early, creator>>

\* ------------------------------------------------------- the session task
\* a Sender of task a's channel still exists (in the map or in its creator's hands)
SenderExists(a) ==
  \/ \E c \in Channels : sessions[c] = a
  \/ \E p \in Producers : dsender[p] = a /\ dpc[p] \in {"vsend", "insert"}

\* the loop left when say() fails
AfterSayAbort(ok, after) == IF ok THEN after ELSE "twrite"

\* lines 120-126: where the loop goes after say() returned, Ok or Err
AfterSay(ok, after) == after

\* lines 116-126 / 134-142, one turn of the session: broadcast_typing (its error
\* ignored), process_input, say (its error only printed)
HandleMessage(a, after) ==
  LET r == ProcessInput(game[a], cur[a])
      c == achan[a]
  IN
  /\ \E typed, said \in BOOLEAN :
       LET errs == {<<cur[a], "typing">> : x \in {y \in {typed} : ~y}}
                     \cup {<<cur[a], "say">> : x \in {y \in {said} : ~y}}
       IN
       /\ Cardinality(failed \cup errs) <= faults
       /\ failed' = failed \cup errs
       /\ outputs' = IF said
                       THEN [outputs EXCEPT ![c] =
                               Append(@, [msg |-> cur[a], out |-> r.response])]
                       ELSE outputs
       /\ apc' = [apc EXCEPT ![a] = AfterSay(said, after)]
  /\ game' = [game EXCEPT ![a] = r.count]
  /\ processed' = [processed EXCEPT ![c] =
                     Append(@, [msg |-> cur[a], task |-> a, out |-> r.response])]
  /\ cur' = [cur EXCEPT ![a] = NoMsg]
  /\ UNCHANGED <<sessions, lockVars, dispVars, achan, mailbox, closed, exitWhy,
                 spawned, disk, accepted, sendErrs, removals, inserts, early, creator>>

\* lines 113-114: recv yields the next buffered message
ActiveRecv(a) ==
  /\ apc[a] = "recv"
  /\ mailbox[a] # <<>>
  /\ cur' = [cur EXCEPT ![a] = NextMessage(mailbox[a])]
  /\ mailbox' = [mailbox EXCEPT ![a] = Rest(@)]
  /\ apc' = [apc EXCEPT ![a] = "turn"]
  /\ UNCHANGED <<sessions, lockVars, dispVars, achan, game, closed, exitWhy,
                 spawned, disk, histVars>>

\* lines 116-127
ActiveTurn(a) ==
  /\ apc[a] = "turn"
  /\ HandleMessage(a, "recv")

\* lines 113-114, 128: the loop ends: ten minutes without a message (Err), or
\* recv yields None because no Sender is left
LoopExit(a) ==
  /\ apc[a] = "recv"
  /\ mailbox[a] = <<>>
  /\ exitWhy' = [exitWhy EXCEPT ![a] =
                   IF SenderExists(a) THEN "timeout" ELSE "disconnected"]
  /\ apc' = [apc EXCEPT ![a] = "twrite"]
  /\ UNCHANGED <<sessions, lockVars, dispVars, achan, game, mailbox, closed,
                 cur, spawned, disk, histVars>>

\* the receiver closed without waiting for the write guard
MayCloseUnlocked(a) == TRUE

\* lines 129-130: recver.close() runs once ses.write() has returned the guard
MayClose(a) == HoldsWrite(ATask(a))

\* line 129: the task asks for the write guard
ActorWrite(a) ==
  /\ apc[a] = "twrite"
  /\ SetLock(Request(ATask(a), "w"))
  /\ apc' = [apc EXCEPT ![a] = "close"]
  /\ UNCHANGED <<sessions, dispVars, achan, game, mailbox, closed, cur,
                 exitWhy, spawned, disk, histVars>>

\* a teardown that goes on to drain without closing the channel
ActorCloseForgets(a) ==
  /\ apc[a] = "close"
  /\ MayClose(a)
  /\ apc' = [apc EXCEPT ![a] = "drain"]
  /\ UNCHANGED <<sessions, lockVars, dispVars, achan, game, mailbox, closed, cur,
                 exitWhy, spawned, disk, histVars>>

\* line 130: recver.close()
ActorClose(a) ==
  /\ apc[a] = "close"
  /\ MayClose(a)
  /\ closed' = [closed EXCEPT ![a] = TRUE]
  /\ apc' = [apc EXCEPT ![a] = "drain"]
  /\ UNCHANGED <<sessions, lockVars, dispVars, achan, game, mailbox, cur,
                 exitWhy, spawned, disk, histVars>>

\* line 131: recv yields a message left in the closed channel
DrainRecv(a) ==
  /\ apc[a] = "drain"
  /\ mailbox[a] # <<>>
  /\ cur' = [cur EXCEPT ![a] = NextMessage(mailbox[a])]
  /\ mailbox' = [mailbox EXCEPT ![a] = Rest(@)]
  /\ apc' = [apc EXCEPT ![a] = "dturn"]
  /\ UNCHANGED <<sessions, lockVars, dispVars, achan, game, closed, exitWhy,
                 spawned, disk, histVars>>

\* lines 134-143
DrainTurn(a) ==
  /\ apc[a] = "dturn"
  /\ HandleMessage(a, "drain")

\* the entry left in the map
RemoveEntryForgotten(m, c) == m

\* the whole map cleared
RemoveEntryAll(m, c) == [x \in DOMAIN m |-> 0]

\* the map after writer.remove(&channel_id)
RemoveEntry(m, c) == [m EXCEPT ![c] = 0]

\* the second loop left without looking into the channel
DrainedUnchecked(a) == TRUE

\* line 131: recver.recv() yields None, the closed channel is empty
Drained(a) == mailbox[a] = <<>>

\* lines 131, 144: recv yields None, writer.remove(&channel_id)
ActorRemove(a) ==
  /\ apc[a] = "drain"
  /\ Drained(a)
  /\ sessions' = RemoveEntry(sessions, achan[a])
  /\ removals' = [removals EXCEPT ![a] = @ + 1]
  /\ apc' = [apc EXCEPT ![a] = "exit"]
  /\ UNCHANGED <<lockVars, dispVars, achan, game, mailbox, closed, cur,
                 exitWhy, spawned, disk, processed, outputs, failed, accepted,
                 sendErrs, inserts, early, creator>>

\* lines 145-146: the task ends (the disk is not written), its write guard dropped
ActorExit(a) ==
  /\ apc[a] = "exit"
  /\ SetLock(DropWrite(ATask(a)))
  /\ apc' = [apc EXCEPT ![a] = "done"]
  /\ UNCHANGED <<sessions, dispVars, achan, game, mailbox, closed, cur,
                 exitWhy, spawned, disk, histVars>>

\* ------------------------------------------------------------------ Next
Next ==
  \/ \E p \in Producers : MessageRead(p)
  \/ \E p \in Producers : CheckFound(p)
  \/ \E p \in Producers : CheckMissing(p)
  \/ \E p \in Producers : FastSend(p)
  \/ \E p \in Producers : MessageWrite(p)
  \/ \E p \in Producers : EntryOccupied(p)
  \/ \E p \in Producers : OccupiedSend(p)
  \/ \E p \in Producers : EntryVacant(p)
  \/ \E p \in Producers : VacantSend(p)
  \/ \E p \in Producers : VacantInsert(p)
  \/ \E a \in ActorIds : ActiveRecv(a)
  \/ \E a \in ActorIds : ActiveTurn(a)
  \/ \E a \in ActorIds : LoopExit(a)
  \/ \E a \in ActorIds : ActorWrite(a)
  \/ \E a \in ActorIds : ActorClose(a)
  \/ \E a \in ActorIds : DrainRecv(a)
  \/ \E a \in ActorIds : DrainTurn(a)
  \/ \E a \in ActorIds : ActorRemove(a)
  \/ \E a \in ActorIds : ActorExit(a)

Spec == Init /\ [][Next]_vars

SpecBurst == InitBurst /\ [][Next]_vars

SpecFaults == InitFaults /\ [][Next]_vars

\* ------------------------------------ the terminal game (term_game.rs main)
\* load_profile_bytes, lines 10-16 and 54-56: the file's bytes, or on any
\* error a message and Vec::default()
TermLoad ==
  /\ tpc = "load"
  /\ tbytes' = IF tfile.exists THEN tfile.bytes ELSE <<>>
  /\ tstart' = IF tfile.exists THEN "read" ELSE "missing"
  /\ tpc' = "parse"
  /\ UNCHANGED <<tfile, tprofile, tgame, tout, tlines, botVars, roomVars>>

\* a start that gives up on bytes it cannot decode
TermParseStrict ==
  /\ tpc = "parse"
  /\ LET r == Deserialize(tbytes) IN
       /\ tgame' = r.count
       /\ tstart' = IF tstart = "missing" THEN "missing"
                    ELSE IF r.ok THEN "decoded" ELSE "undecodable"
       /\ tpc' = IF r.ok THEN "prompt" ELSE "panicked"
  /\ UNCHANGED <<tfile, tbytes, tprofile, tout, tlines, botVars, roomVars>>

\* lines 17-23: GameData::try_from(bytes), or on Err a message and
\* GameData::default()
TermParse ==
  /\ tpc = "parse"
  /\ LET r == Deserialize(tbytes) IN
       /\ tgame' = IF r.ok THEN r.count ELSE DefaultCount
       /\ tstart' = IF tstart = "missing" THEN "missing"
                    ELSE IF r.ok THEN "decoded" ELSE "undecodable"
  /\ tpc' = "prompt"
  /\ UNCHANGED <<tfile, tbytes, tprofile, tout, tlines, botVars, roomVars>>

\* lines 30-46: one line is read, process_input answers it, the answer is
\* written and the game serialized; an Err of the serializer ends main
TermTurn ==
  /\ tpc = "prompt"
  /\ tlines < MaxLines
  /\ \E line \in Lines :
       LET r == ProcessInput(tgame, line)
           enc == Serialize(r.count)
       IN /\ tgame' = r.count
          /\ tout' = Append(tout, r.response)
          /\ tprofile' = IF enc.ok THEN enc.bytes ELSE tprofile
          /\ tpc' = IF enc.ok THEN "store" ELSE "returned"
  /\ tlines' = tlines + 1
  /\ UNCHANGED <<tfile, tbytes, tstart, botVars, roomVars>>

\* lines 47 and 57-61: store_profile_bytes returns Ok, the file holds the bytes
TermStoreOk ==
  /\ tpc = "store"
  /\ tfile' = FileOf(tprofile)
  /\ tpc' = "prompt"
  /\ UNCHANGED <<tbytes, tprofile, tgame, tout, tstart, tlines, botVars, roomVars>>

\* lines 47 and 57-61: std::fs::write returns Err, with the file as it was or
\* already truncated, and unwrap() panics
TermStoreErr ==
  /\ tpc = "store"
  /\ \E left \in {tfile, FileOf(<<>>)} : tfile' = left
  /\ tpc' = "panicked"
  /\ UNCHANGED <<tbytes, tprofile, tgame, tout, tstart, tlines, botVars, roomVars>>

\* the program is run again, after it ended or was stopped at the prompt
TermRerun ==
  /\ tpc \in {"prompt", "panicked", "returned"}
  /\ tpc' = "load"
  /\ tbytes' = <<>>
  /\ tprofile' = <<>>
  /\ tgame' = DefaultCount
  /\ tout' = <<>>
  /\ tstart' = "unread"
  /\ UNCHANGED <<tfile, tlines, botVars, roomVars>>

NextTerm ==
  \/ TermLoad
  \/ TermParse
  \/ TermTurn
  \/ TermStoreOk
  \/ TermStoreErr
  \/ TermRerun

\* the terminal game started on any of the save files
InitTerm ==
  /\ Fresh
  /\ Quiet
  /\ \E file \in SavedFiles : TermAt(file)
  /\ RoomsUnprobed

SpecTerm == InitTerm /\ [][NextTerm]_vars

\* ------------------------------------------------ the room table compared
\* test_room_db_sorted and test_all_room_ids_different compare the rooms of
\* the table with each other: one comparison of two of its rows
RoomCompare ==
  /\ \E i \in 1..Len(ROOM_DB) : \E j \in 1..Len(ROOM_DB) :
       /\ rprobe' = <<i, j>>
       /\ rcmp' = CmpRoom(ROOM_DB[i], ROOM_DB[j])
  /\ UNCHANGED <<botVars, termVars>>

NextRooms == RoomCompare

InitRooms ==
  /\ Fresh
  /\ Quiet
  /\ TermAt(NoFile)
  /\ RoomsUnprobed

SpecRooms == InitRooms /\ [][NextRooms]_vars

\* ------------------------------------------------------------ properties
Live(a) == apc[a] \notin {"none", "done"}
LiveOn(c) == {a \in ActorIds : Live(a) /\ achan[a] = c}
SpawnedOn(c) == {a \in ActorIds : apc[a] # "none" /\ achan[a] = c}
Sending(p) == dpc[p] \in {"fsend", "osend", "vsend"}
\* the calls of producer p that have returned
Returned(p) == {k \in 1..calls[p] : k < calls[p] \/ dpc[p] = "idle"}
\* number of process_input calls made on message m of channel c
TimesProcessed(c, m) ==
  Cardinality({i \in 1..Len(processed[c]) : processed[c][i].msg = m})
\* message m sits in task a's channel, or is the one task a is working on
HeldBy(a, m) ==
  \/ \E i \in 1..Len(mailbox[a]) : mailbox[a][i] = m
  \/ cur[a] = m

\* C1 as stated: all the concurrent first messages of a channel (calls begun
\* before the channel had a session task) are enqueued into one and the same
\* task, the only one ever spawned for them.
C1_OneSpawnForFirstMessages ==
  \A x \in accepted : \A y \in accepted :
    (x[1] \in early /\ y[1] \in early /\ x[2] = y[2]) => x[3] = y[3]

\* C1 amended: for every channel at most one session task is live at any time; a
\* further task is spawned only after an earlier one removed its entry, so the
\* concurrent first calls spawn exactly one task unless that task idles out
\* before the last of them looked the channel up; every sender is inserted at
\* most once, and once its creator has returned exactly once; and every call
\* that has returned enqueued its message into a task of its own channel.
C1_AtMostOneLiveActor ==
  /\ \A c \in Channels :
       /\ Cardinality(LiveOn(c)) <= 1
       /\ Cardinality(SpawnedOn(c)) <=
            1 + Cardinality({a \in SpawnedOn(c) : removals[a] > 0})
       /\ (\A a \in SpawnedOn(c) : exitWhy[a] = "none")
            => Cardinality(SpawnedOn(c)) <= 1
  /\ \A a \in ActorIds :
       /\ inserts[a] <= 1
       /\ (apc[a] # "none" /\ ~\E p \in Producers :
                                  dpc[p] \in {"vsend", "insert"} /\ dsender[p] = a)
            => inserts[a] = 1
  /\ \A p \in Producers : \A k \in Returned(p) :
       \E x \in accepted : x[1] = <<p, k>> /\ achan[x[3]] = x[2]
  /\ \A x \in accepted : \A y \in accepted :
       (x[2] = y[2] /\ x[3] # y[3]) => removals[x[3]] > 0 \/ removals[y[3]] > 0

\* C1 witness: two calls of different producers that both began before the
\* channel had a task have returned, and their messages went to the one task
\* spawned for the channel.
C1_Witness ==
  \E x \in accepted : \E y \in accepted :
    /\ x[1][1] # y[1][1]
    /\ x[1] \in early /\ y[1] \in early
    /\ x[3] = y[3]
    /\ Cardinality(SpawnedOn(x[2])) = 1
    /\ dpc[x[1][1]] = "idle" /\ dpc[y[1][1]] = "idle"

\* the map and the tasks agree on channel c
EntryIffLive(c) ==
  /\ sessions[c] # 0 <=> LiveOn(c) # {}
  /\ sessions[c] # 0 => LiveOn(c) = {sessions[c]}

\* some task has just been granted the lock and has not acted under it yet
JustAcquired ==
  \/ \E p \in Producers : dpc[p] = "check" /\ HoldsRead(DTask(p))
  \/ \E p \in Producers : dpc[p] = "entry" /\ HoldsWrite(DTask(p))
  \/ \E a \in ActorIds : apc[a] = "close" /\ HoldsWrite(ATask(a))

\* C2: whenever a task has acquired the lock on the sessions (a read guard or
\* the write guard), a channel has an entry if and only if a session task of
\* that channel is live, and the entry's sender feeds exactly that task.
C2_EntryIffLiveAtLock ==
  (JustAcquired \/ (writer = None /\ readers = {}))
    => \A c \in Channels : EntryIffLive(c)

\* C2 witness: a call holds the write guard it has just been granted, on a
\* channel whose earlier session has ended and left no entry.
C2_Witness ==
  \E p \in Producers :
    /\ dpc[p] = "entry" /\ HoldsWrite(DTask(p))
    /\ sessions[dchan[p]] = 0
    /\ \E a \in ActorIds : apc[a] = "done" /\ achan[a] = dchan[p]

\* C3: every message whose send succeeded has been processed exactly once, or
\* has not been processed and is buffered in (or is the message at hand of) the
\* one live task of its channel; a task that has ended holds no message.
C3_NoAcceptedMessageLost ==
  /\ \A x \in accepted :
       LET m == x[1]
           c == x[2]
           a == x[3]
       IN
       \/ /\ TimesProcessed(c, m) = 1
          /\ ~\E b \in ActorIds : HeldBy(b, m)
       \/ /\ TimesProcessed(c, m) = 0
          /\ Live(a) /\ achan[a] = c
          /\ \A b \in ActorIds : HeldBy(b, m) <=> b = a
          /\ Cardinality({i \in 1..Len(mailbox[a]) : mailbox[a][i] = m})
               + (IF cur[a] = m THEN 1 ELSE 0) = 1
  /\ \A a \in ActorIds : ~Live(a) => mailbox[a] = <<>> /\ cur[a] = NoMsg

\* C3 witness: a message was sent after the idle timeout fired and before the
\* task was granted the write guard, and the task has taken it out of the closed
\* channel in its second loop.
C3_Witness ==
  \E a \in ActorIds :
    /\ apc[a] = "dturn"
    /\ closed[a]
    /\ \E x \in accepted : x[1] = cur[a] /\ x[3] = a

\* the call of p is suspended in send under its guard, on the full channel of a task
\* that has left its first loop and waits in the queue for the write guard
LockedSendDeadlock(p) ==
  LET a == dsender[p] IN
  /\ dpc[p] \in {"fsend", "osend"}
  /\ HoldsRead(DTask(p)) \/ HoldsWrite(DTask(p))
  /\ SendOutcome(a) = "full"
  /\ apc[a] = "close"
  /\ ~HoldsWrite(ATask(a))
  /\ \E i \in 1..Len(waitq) : waitq[i] = <<ATask(a), "w">>

\* C4: no reachable state has a call that holds the lock on the sessions (the
\* read guard on the fast path, the write guard on the occupied path) suspended
\* on a full channel whose task has timed out and waits for the write guard.
C4_NoLockedSendDeadlock ==
  \A p \in Producers : ~LockedSendDeadlock(p)

\* the messages of one producer appear in seq in the order of its calls
InCallOrder(seq) ==
  \A i \in 1..Len(seq) : \A j \in 1..Len(seq) :
    (i < j /\ seq[i].msg[1] = seq[j].msg[1]) => seq[i].msg[2] < seq[j].msg[2]

\* C5: on every channel the messages of a single producer are processed in the
\* order of its calls and their responses are said in that order, and no two
\* tasks of a channel are at work on a message at the same time, also when a
\* session ended and a new one was created between two of the messages.
C5_FifoPerProducer ==
  \A c \in Channels :
    /\ InCallOrder(processed[c])
    /\ InCallOrder(outputs[c])
    /\ Cardinality({a \in ActorIds :
                      achan[a] = c /\ apc[a] \in {"turn", "dturn"}}) <= 1

\* C5 witness: three messages of producer 1 have been processed and said in
\* order on channel 1, the second by another task than the first.
C5_Witness ==
  \E i, j, k \in 1..Len(processed[1]) :
    /\ i < j /\ j < k
    /\ processed[1][i].msg = <<1, 1>>
    /\ processed[1][j].msg = <<1, 2>>
    /\ processed[1][k].msg = <<1, 3>>
    /\ processed[1][i].task # processed[1][j].task
    /\ Len(outputs[1]) = Len(processed[1])

\* C6: whenever a channel has no entry (and no task), the saved game of the
\* channel is the one that results from all messages processed for it so far.
C6_SnapshotIsFresh ==
  \A c \in Channels :
    (sessions[c] = 0 /\ LiveOn(c) = {}) => disk[c] = Len(processed[c])

\* C7: no send ever targets a channel whose receiver has been closed, on the
\* fast path, the occupied path or the creation path, so no send returns Err.
C7_NoSendAfterClose ==
  /\ sendErrs = 0
  /\ \A p \in Producers : Sending(p) => ~closed[dsender[p]]

\* C7 witness: a call on the fast path is about to send while the task it sends
\* to has already timed out and waits for the write guard to close the channel.
C7_Witness ==
  \E p \in Producers :
    /\ dpc[p] = "fsend"
    /\ HoldsRead(DTask(p))
    /\ apc[dsender[p]] = "close"
    /\ ~HoldsWrite(ATask(dsender[p]))

\* a step that changes the entry of channel c is the creator's v.insert of its
\* own sender, or the removal by the task the entry names, under the write guard,
\* out of its drained channel, after an idle timeout, right before it ends
EntryStep(c) ==
  IF sessions[c] = 0
    THEN \E p \in Producers :
           /\ dpc[p] = "insert" /\ dchan[p] = c
           /\ HoldsWrite(DTask(p))
           /\ sessions'[c] = dsender[p]
    ELSE LET a == sessions[c] IN
           /\ sessions'[c] = 0
           /\ apc[a] = "drain" /\ apc'[a] = "exit"
           /\ achan[a] = c
           /\ HoldsWrite(ATask(a))
           /\ mailbox[a] = <<>>
           /\ exitWhy[a] = "timeout"
           /\ removals[a] = 0 /\ removals'[a] = 1

\* C8: an entry is inserted only by the vacant branch of a call and removed only
\* by the session task it names, under the write guard; a task's remove takes
\* out its own entry, happens once, after an idle timeout, and is the last
\* thing the task does before it ends.
C8_EntryLifecycle ==
  /\ [][\A c \in Channels : sessions'[c] # sessions[c] => EntryStep(c)]_vars
  /\ [][\A a \in ActorIds :
          /\ removals'[a] # removals[a]
               => sessions[achan[a]] = a /\ sessions'[achan[a]] = 0
          /\ (apc[a] = "exit" /\ apc'[a] # "exit") => apc'[a] = "done"]_vars
  /\ [](\A a \in ActorIds :
          /\ removals[a] <= 1
          /\ apc[a] \in {"exit", "done"} <=> removals[a] = 1)

\* C8 witness: a session of channel 2 has ended after removing its entry once,
\* while channel 1 keeps the entry of its live session.
C8_Witness ==
  /\ \E a \in ActorIds : apc[a] = "done" /\ achan[a] = 2 /\ removals[a] = 1
  /\ sessions[2] = 0
  /\ sessions[1] # 0

\* C9: no channel ever buffers more than CAPACITY messages; a call whose send
\* finds the channel full stays suspended in that send, with its guard, and no
\* error is returned; and the step that ends a send puts the message into the
\* channel.
C9_BoundedMailbox ==
  /\ [](\A a \in ActorIds : Len(mailbox[a]) <= CAPACITY)
  /\ [][\A p \in Producers :
          /\ (Sending(p) /\ SendOutcome(dsender[p]) = "full")
               => /\ dpc'[p] = dpc[p]
                  /\ sendErrs' = sendErrs
                  /\ HoldsRead(DTask(p)) => HoldsRead(DTask(p))'
                  /\ HoldsWrite(DTask(p)) => HoldsWrite(DTask(p))'
          /\ (Sending(p) /\ dpc'[p] # dpc[p])
               => /\ mailbox'[dsender[p]] = Append(mailbox[dsender[p]], CurMsg(p))
                  /\ <<CurMsg(p), dchan[p], dsender[p]>> \in accepted']_vars

\* C9 witness: a call is suspended in send on a channel that holds CAPACITY
\* messages while its task is still in its first loop and will take one out.
C9_Witness ==
  \E p \in Producers :
    /\ dpc[p] = "fsend"
    /\ Len(mailbox[dsender[p]]) = CAPACITY
    /\ apc[dsender[p]] = "recv"

\* number of process_input calls session task a has made
TurnsOf(a) ==
  Cardinality({i \in 1..Len(processed[achan[a]]) : processed[achan[a]][i].task = a})

\* C10: a turn in which broadcast_typing or say fails still counts: the game
\* keeps the new count, the task goes back to receiving in the loop it is in,
\* and the game of every task is the number of messages it has processed.
C10_GatewayFailureKeepsSession ==
  /\ [][\A a \in ActorIds :
          (apc[a] \in {"turn", "dturn"} /\ apc'[a] # apc[a] /\ failed' # failed)
            => /\ game'[a] = game[a] + 1
               /\ apc'[a] = (IF apc[a] = "turn" THEN "recv" ELSE "drain")
               /\ Len(processed'[achan[a]]) = Len(processed[achan[a]]) + 1]_vars
  /\ [](\A a \in ActorIds : apc[a] # "none" => game[a] = TurnsOf(a))

\* C10 witness: say failed for one message of a session, and the same session
\* has processed a later message and said its response.
C10_Witness ==
  \E c \in Channels : \E i, j \in 1..Len(processed[c]) :
    /\ i < j
    /\ <<processed[c][i].msg, "say">> \in failed
    /\ processed[c][j].task = processed[c][i].task
    /\ \E k \in 1..Len(outputs[c]) : outputs[c][k].msg = processed[c][j].msg

\* ------------------------------------------------- the terminal game's claims
\* C11: a failure to encode the game or to write the save file after an input
\* was processed does not end the session: main is never brought down by it
\* (neither by the panic of unwrap() nor by the return after a serializer
\* Err), it keeps its game and goes on to the next prompt.
C11_PersistFailureNonFatal == tpc \notin {"panicked", "returned"}

\* C12: a run that finds no save file, or bytes that do not decode, still gets
\* to its prompt: it starts from GameData::default() (message count 0) and
\* answers its first line with "1"; it can end only after a line was answered.
C12_MissingOrCorruptStartsDefault ==
  tstart \in {"missing", "undecodable"} =>
    /\ tpc \in {"panicked", "returned"} => tout # <<>>
    /\ tout = <<>> => tgame = DefaultCount
    /\ tout # <<>> => (tout[1] = <<1>> /\ tgame = DefaultCount + Len(tout))

\* the file held three bytes, which is no u64, and the first line was answered
C12_Witness ==
  /\ tstart = "undecodable"
  /\ tbytes = <<1, 0, 0>>
  /\ tout = << <<1>> >>
  /\ tpc = "prompt"

\* C13: snapshot round trip. Encoding the game a run holds succeeds, and
\* decoding those bytes gives a game with the same message_count; so the file
\* a run has just written decodes to the game it holds.
C13_SnapshotRoundTrip ==
  /\ LET enc == Serialize(tgame) IN
       /\ enc.ok
       /\ Deserialize(enc.bytes).ok
       /\ Deserialize(enc.bytes).count = tgame
  /\ (tpc = "prompt" /\ tout # <<>>) =>
       /\ tfile.exists
       /\ Deserialize(tfile.bytes).ok
       /\ Deserialize(tfile.bytes).count = tgame

\* a count of two significant bytes was saved: 255 was loaded, a line answered
C13_Witness ==
  /\ tstart = "decoded"
  /\ tpc = "prompt"
  /\ tout = << <<2, 5, 6>> >>
  /\ tgame = 256
  /\ tfile = FileOf(<<0, 1, 0, 0, 0, 0, 0, 0>>)

\* ------------------------------------------------------ the bot's claims, II
\* C14: a call that finds the channel's sender under its read guard (line 80)
\* goes on to send under that read guard and never asks for the write guard;
\* it spawns no task and leaves the map as it is, and when it returns its one
\* effect on the sessions is its message appended to that session's channel.
C14_FastPathFrame ==
  /\ [](\A p \in Producers : dpc[p] = "fsend" =>
          /\ HoldsRead(DTask(p))
          /\ ~HoldsWrite(DTask(p))
          /\ \A i \in 1..Len(waitq) : waitq[i][1] # DTask(p)
          /\ dsender[p] = sessions[dchan[p]])
  /\ [][\A p \in Producers :
          (dpc[p] = "check" /\ sessions[dchan[p]] # 0 /\ dpc'[p] # "check") =>
            /\ dpc'[p] = "fsend"
            /\ sessions' = sessions
            /\ spawned' = spawned
            /\ mailbox' = mailbox]_vars
  /\ [][\A p \in Producers :
          (dpc[p] = "fsend" /\ dpc'[p] # "fsend") =>
            /\ dpc'[p] = "idle"
            /\ sessions' = sessions
            /\ spawned' = spawned
            /\ apc' = apc
            /\ game' = game
            /\ closed' = closed
            /\ cur' = cur
            /\ processed' = processed
            /\ mailbox' = [mailbox EXCEPT
                             ![sessions[dchan[p]]] = Append(@, CurMsg(p))]]_vars

\* two calls on the fast path at once, sharing the lock and the sender, the
\* first producer with its second message while its first is already sent
C14_Witness ==
  /\ dpc[1] = "fsend" /\ dpc[2] = "fsend"
  /\ HoldsRead(DTask(1)) /\ HoldsRead(DTask(2))
  /\ dsender[1] = dsender[2]
  /\ calls[1] = 2
  /\ <<<<1, 1>>, dchan[1], dsender[1]>> \in accepted

\* --------------------------------------------------- the room table's claim
\* C15: ROOM_DB is sorted under the derived ordering of Room with strictly
\* increasing ids: of any two rows the earlier compares Less than the later,
\* and its RoomID is the smaller number, so no two rooms share a RoomID.
C15_RoomDbStrictlyIncreasing ==
  /\ rprobe[1] < rprobe[2] =>
       /\ rcmp = "Less"
       /\ ROOM_DB[rprobe[1]].id < ROOM_DB[rprobe[2]].id
  /\ rprobe[1] # rprobe[2] => ROOM_DB[rprobe[1]].id # ROOM_DB[rprobe[2]].id

\* d101 "entry" against d102 "deadend": the names alone are in falling order
C15_Witness ==
  /\ rprobe = <<2, 3>>
  /\ rcmp = "Less"
  /\ CmpStr(ROOM_DB[2].name, ROOM_DB[3].name) = "Greater"

\* the steps a session task takes, in the order of its code
TaskOrder ==
  {<<"none", "recv">>, <<"recv", "turn">>, <<"turn", "recv">>,
   <<"recv", "twrite">>, <<"twrite", "close">>, <<"close", "drain">>,
   <<"drain", "dturn">>, <<"dturn", "drain">>, <<"drain", "exit">>,
   <<"exit", "done">>}

\* C16: after the idle timeout the task tears down in this order, all of it
\* under the write guard: it acquires the guard, closes its channel, handles
\* every buffered message oldest first until none is left, removes the
\* channel's entry and ends; the entry is never removed while the channel is
\* open or holds a message.
C16_TeardownOrder ==
  /\ [](\A a \in ActorIds :
          /\ apc[a] \in {"drain", "dturn", "exit"} =>
               (HoldsWrite(ATask(a)) /\ closed[a])
          /\ apc[a] \in {"exit", "done"} =>
               (mailbox[a] = <<>> /\ sessions[achan[a]] # a)
          /\ apc[a] = "done" => ~HoldsWrite(ATask(a)))
  /\ [][\A a \in ActorIds :
          /\ apc'[a] # apc[a] => <<apc[a], apc'[a]>> \in TaskOrder
          /\ (closed'[a] /\ ~closed[a]) =>
               (HoldsWrite(ATask(a)) /\ apc[a] = "close" /\ apc'[a] = "drain")
          /\ (apc[a] = "drain" /\ apc'[a] = "dturn") =>
               (cur'[a] = Head(mailbox[a]) /\ mailbox'[a] = Tail(mailbox[a]))]_vars
  /\ [][\A c \in Channels :
          (sessions[c] # 0 /\ sessions'[c] = 0) =>
            LET a == sessions[c] IN
              /\ HoldsWrite(ATask(a))
              /\ closed[a]
              /\ mailbox[a] = <<>>
              /\ apc[a] = "drain" /\ apc'[a] = "exit"]_vars

\* a teardown with two buffered messages: one being handled, one still queued
C16_Witness ==
  \E a \in ActorIds :
    /\ apc[a] = "dturn"
    /\ closed[a]
    /\ HoldsWrite(ATask(a))
    /\ Len(mailbox[a]) = 1
    /\ sessions[achan[a]] = a

RECURSIVE DecimalValue(_)
\* the number a string of decimal digits reads as
DecimalValue(d) ==
  IF d = <<>> THEN 0 ELSE DecimalValue(SubSeq(d, 1, Len(d) - 1)) * 10 + d[Len(d)]

\* d is how a number is written in decimal: digits, no leading zero
IsDecimal(d) ==
  /\ Len(d) >= 1
  /\ \A i \in 1..Len(d) : d[i] \in 0..9
  /\ Len(d) > 1 => d[1] # 0

\* the number of process_input calls task a had made up to the i-th call of
\* its channel c
TurnIndex(c, i) ==
  Cardinality({j \in 1..i : processed[c][j].task = processed[c][i].task})

\* C17: the engine is a counter that does not look at its input. A session
\* starts from GameData::default() (count c = 0); the k-th message its task
\* processes is answered with c + k written in decimal, whoever sent it and
\* whatever it holds, and the task's game is the count left by its last call.
C17_CounterThreadedThroughSession ==
  /\ \A c \in Channels : \A i \in 1..Len(processed[c]) :
       /\ IsDecimal(processed[c][i].out)
       /\ DecimalValue(processed[c][i].out) = DefaultCount + TurnIndex(c, i)
  /\ \A a \in ActorIds : apc[a] # "none" => game[a] = DefaultCount + TurnsOf(a)

\* one session answered messages of two producers with 1 and 2, and the next
\* session of the channel began again at 1
C17_Witness ==
  \E c \in Channels :
    /\ Len(processed[c]) = 3
    /\ processed[c][1].task = processed[c][2].task
    /\ processed[c][1].msg[1] # processed[c][2].msg[1]
    /\ processed[c][2].out = <<2>>
    /\ processed[c][3].task # processed[c][2].task
    /\ processed[c][3].out = <<1>>

\* task a takes a step of one of its two receive loops
LoopStep(a) ==
  /\ apc[a] \in {"recv", "turn", "drain", "dturn"}
  /\ apc'[a] \in {"recv", "turn", "drain", "dturn"}
  /\ apc'[a] # apc[a]

\* C18: sessions are isolated from each other. When the task of channel A
\* receives or processes a message, only its own game and its own channel
\* buffer change: the game, the buffer and the current message of every other
\* task, the map, and what the other channels have processed and said stay as
\* they are; and a channel processes and says only messages that were
\* dispatched to it, so its outputs depend on its own messages alone.
C18_ChannelIsolation ==
  /\ [][\A a \in ActorIds : LoopStep(a) =>
          /\ sessions' = sessions
          /\ \A b \in ActorIds \ {a} :
               /\ game'[b] = game[b]
               /\ mailbox'[b] = mailbox[b]
               /\ cur'[b] = cur[b]
               /\ closed'[b] = closed[b]
          /\ \A c \in Channels \ {achan[a]} :
               /\ processed'[c] = processed[c]
               /\ outputs'[c] = outputs[c]]_vars
  /\ [](/\ \A x \in accepted : achan[x[3]] = x[2]
        /\ \A c \in Channels :
             /\ \A i \in 1..Len(processed[c]) :
                  /\ achan[processed[c][i].task] = c
                  /\ <<processed[c][i].msg, c, processed[c][i].task>> \in accepted
             /\ \A i \in 1..Len(outputs[c]) :
                  \E j \in 1..Len(processed[c]) :
                    /\ processed[c][j].msg = outputs[c][i].msg
                    /\ processed[c][j].out = outputs[c][i].out)

\* both channels have a live session, with different counts, and the session
\* of channel 2 is in the middle of a turn
C18_Witness ==
  /\ sessions[1] # 0 /\ sessions[2] # 0
  /\ game[sessions[1]] = 2
  /\ game[sessions[2]] = 0
  /\ apc[sessions[2]] = "turn"
  /\ apc[sessions[1]] = "recv"

\* the indices of channel c's process_input calls that task a made
TurnsAt(c, a) == {i \in 1..Len(processed[c]) : processed[c][i].task = a}

\* the message task a processes first: the one it has processed first, else
\* the one it is working on, else the oldest one buffered, else none yet
FirstMessage(a) ==
  LET c == achan[a] IN
    IF TurnsAt(c, a) # {}
      THEN processed[c][CHOOSE i \in TurnsAt(c, a) : \A j \in TurnsAt(c, a) : i <= j].msg
    ELSE IF cur[a] # NoMsg THEN cur[a]
    ELSE IF mailbox[a] # <<>> THEN Head(mailbox[a])
    ELSE NoMsg

\* C19: the message of the call that creates a session is the first message
\* the session's task processes. The creator sends it into the fresh, empty
\* channel without being suspended and only then inserts the sender, both
\* under the write guard it took before spawning, so no other call can get a
\* message in ahead of it.
C19_CreatorMessageFirst ==
  /\ [](\A a \in ActorIds : apc[a] # "none" =>
          /\ creator[a] # NoMsg
          /\ FirstMessage(a) # NoMsg => FirstMessage(a) = creator[a]
          /\ FirstMessage(a) = NoMsg =>
               \E p \in Producers :
                 dpc[p] = "vsend" /\ dsender[p] = a /\ CurMsg(p) = creator[a])
  /\ [](\A p \in Producers :
          /\ dpc[p] \in {"vsend", "insert"} =>
               (HoldsWrite(DTask(p)) /\ sessions[dchan[p]] = 0)
          /\ dpc[p] = "vsend" =>
               (mailbox[dsender[p]] = <<>> /\ SendOutcome(dsender[p]) = "ok"))
  /\ [][\A p \in Producers :
          /\ (dpc[p] = "vsend" /\ dpc'[p] # "vsend") =>
               (dpc'[p] = "insert" /\ mailbox'[dsender[p]] = <<CurMsg(p)>>)
          /\ (dpc[p] = "insert" /\ dpc'[p] # "insert") =>
               sessions'[dchan[p]] = dsender[p]]_vars

\* a session made by producer 2 has processed producer 2's message first and
\* then one of producer 1, whose call had begun before there was a session
C19_Witness ==
  \E a \in ActorIds :
    /\ creator[a] = <<2, 1>>
    /\ Len(processed[achan[a]]) >= 2
    /\ processed[achan[a]][1] = [msg |-> <<2, 1>>, task |-> a, out |-> <<1>>]
    /\ processed[achan[a]][2].msg = <<1, 1>>
    /\ processed[achan[a]][2].task = a
    /\ <<1, 1>> \in early

\* task a is in its first loop (lines 113-127)
Active(a) == apc[a] \in {"recv", "turn"}

\* C20: a task leaves its first loop only because the idle timeout ran out
\* with no message to receive. While it is in that loop its channel is open
\* and a Sender of it exists, in the map or with the creating call before the
\* insert, so recv never reports the channel closed or disconnected; and the
\* entry holding the Sender is taken out by no one but the task itself.
C20_LoopLeftOnlyByTimeout ==
  /\ [](\A a \in ActorIds :
          /\ exitWhy[a] \in {"none", "timeout"}
          /\ Active(a) => (~closed[a] /\ SenderExists(a))
          /\ (apc[a] # "none" /\ ~Active(a)) => exitWhy[a] = "timeout")
  /\ [][\A a \in ActorIds :
          (Active(a) /\ ~Active(a)') =>
            /\ apc[a] = "recv"
            /\ mailbox[a] = <<>>
            /\ apc'[a] = "twrite"
            /\ exitWhy'[a] = "timeout"]_vars
  /\ [][\A c \in Channels :
          (sessions[c] # 0 /\ sessions'[c] # sessions[c]) =>
            (apc[sessions[c]] = "drain" /\ apc'[sessions[c]] = "exit")]_vars

\* a task timed out while the call that made it still holds its Sender, not
\* yet inserted
C20_Witness ==
  \E a \in ActorIds : \E p \in Producers :
    /\ apc[a] = "close"
    /\ exitWhy[a] = "timeout"
    /\ dsender[p] = a
    /\ dpc[p] = "insert"
    /\ sessions[achan[a]] = 0

====
